---- MODULE Spec2Model ----
(***************************************************************************)
(* Model of the two maintenance scripts of the repository:                 *)
(*                                                                         *)
(*   Scanner   src/fix-test-mocks.py                                       *)
(*             find_test_files_with_fetch_mocks(directory)                 *)
(*   Rewriter  src/frontend/fix-weatherapi-tests.py                        *)
(*             module body: read, re.sub loop, write, print                *)
(*                                                                         *)
(* Text is modelled as a sequence of lexemes (strings).  Every substring   *)
(* test and every regular expression of the scripts is evaluated on that   *)
(* sequence, one lexeme standing for the characters it spells.             *)
(***************************************************************************)
EXTENDS Integers, Sequences, FiniteSets, TLC

VARIABLES
    pc,                 \* position of the running script
    out,                \* console: the sequence of print() calls made so far
    tree,               \* Scanner: the files under `directory`, in os.walk order
    test_files,         \* Scanner: paths collected by the walk (indices of tree)
    idx,                \* Scanner: position of the `for filepath in test_files` loop
    files_needing_fix,  \* Scanner: paths classified "needs fix"
    disk,               \* Rewriter: bytes of test_file on disk
    content,            \* Rewriter: the text held in `content`
    ri,                 \* Rewriter: position of the `for pattern, replacement` loop
    run,                \* Rewriter: how many times the script has been started
    disk0,              \* Rewriter: bytes of test_file before the first run
    disk1,              \* Rewriter: bytes of test_file when the current run started
    trace,              \* Rewriter: steps the current run has taken
    applied             \* AnyOrder: the rules applied so far

vars == << pc, out, tree, test_files, idx, files_needing_fix,
           disk, content, ri, run, disk0, disk1, trace, applied >>

scannerVars == << tree, test_files, idx, files_needing_fix >>
scannerVars_noIdx == << tree, test_files, files_needing_fix >>
rewriterVars == << disk, content, ri, run, disk0, disk1, trace, applied >>

(***************************************************************************)
(* Bounds of the model.                                                    *)
(***************************************************************************)
MaxFiles == 2       \* files under the scanned directory
MaxChunks == 3      \* text fragments in the whole scanned directory
MaxSegs == 2        \* text fragments in the rewritten file
MaxRuns == 2        \* successive runs of the Rewriter

(***************************************************************************)
(* Generic sequence helpers.                                               *)
(***************************************************************************)
RECURSIVE Concat(_)
Concat(ss) == IF ss = << >> THEN << >> ELSE Head(ss) \o Concat(Tail(ss))

RECURSIVE SeqsOfLen(_, _)
SeqsOfLen(S, n) ==
    IF n = 0 THEN { << >> }
    ELSE { << x >> \o s : x \in S, s \in SeqsOfLen(S, n - 1) }

Range(s) == { s[i] : i \in 1..Len(s) }

Line(glyph, arg, msg) == [glyph |-> glyph, arg |-> arg, msg |-> msg]

(***************************************************************************)
(*                              SCANNER                                    *)
(***************************************************************************)

\* `x in content` for a literal x that is one lexeme.
Contains(text, lexeme) == \E i \in 1..Len(text) : text[i] = lexeme

\* \s of the re module, on lexemes.
IsSpace(t) == t \in {" ", "\n", "\r", "\r\n"}

\* re.search(r'Promise\.resolve\(\s*\{[^}]*json:', content): some position
\* holds Promise.resolve( , then whitespace only up to a {, then no } up
\* to a json: .
LegacyMatchAt(text, i) ==
    /\ text[i] = "Promise.resolve("
    /\ \E j \in (i + 1)..Len(text) :
          /\ text[j] = "{"
          /\ \A w \in (i + 1)..(j - 1) : IsSpace(text[w])
          /\ \E k \in (j + 1)..Len(text) :
                /\ text[k] = "json:"
                /\ \A b \in (j + 1)..(k - 1) : text[b] # "}"

LegacySearch(text) == \E i \in 1..Len(text) : LegacyMatchAt(text, i)

HasMarker_always(text) == TRUE

\* line 36
HasMarker(text) == Contains(text, "global.fetch")

NeedsFix_ignoresHeaders(text) == LegacySearch(text)

\* line 38
NeedsFix(text) == LegacySearch(text) /\ ~Contains(text, "headers:")

\* file.endswith(('.test.js', '.test.jsx')), the name being a lexeme sequence
EndsWith(name, suffix) ==
    /\ Len(name) >= Len(suffix)
    /\ SubSeq(name, Len(name) - Len(suffix) + 1, Len(name)) = suffix

IsTestFile(name) ==
    \/ EndsWith(name, << ".test", ".js" >>)
    \/ EndsWith(name, << ".test", ".jsx" >>)

OpenForReading_truncates(file) == [file EXCEPT !.text = << >>]

\* open(filepath, 'r'): mode 'r' neither creates nor truncates the file.
OpenForReading(file) == file

\* Text fragments the scanned files are made of.
Chunks ==
    { << "global.fetch" >>,
      << "headers:" >>,
      << "Promise.resolve(", "\n", "{", "ok:", "json:" >>,
      << "Promise.resolve(", "{", "}", "json:" >>,
      << "Promise.resolve(", "ok:", "{", "json:" >> }

TextsOf(k) == { Concat(cs) : cs \in SeqsOfLen(Chunks, k) }

\* Files made of exactly k fragments.  An unreadable file and a file that is
\* no test file are not read, so their text is left empty.
FilesOf(k) ==
    { [name |-> n, err |-> "none", text |-> t] :
        n \in { << "App", ".test", ".js" >>, << "App", ".test", ".jsx" >> },
        t \in TextsOf(k) }
    \cup (IF k = 0
          THEN { [name |-> << "App", ".test", ".js" >>,
                  err |-> "PermissionError", text |-> << >>],
                 [name |-> << "App", ".js" >>, err |-> "none", text |-> << >>] }
          ELSE { })

\* tree is a directory of n files holding at most b fragments in all.
RECURSIVE PickTree(_, _, _)
PickTree(acc, n, b) ==
    IF n = 0 THEN tree = acc
    ELSE \E k \in 0..b : \E f \in FilesOf(k) :
            PickTree(Append(acc, f), n - 1, b - k)

RewriterIdle ==
    /\ disk = << >> /\ content = << >> /\ ri = 0 /\ run = 0
    /\ disk0 = << >> /\ disk1 = << >> /\ trace = << >> /\ applied = { }

ScannerInit ==
    /\ pc = "walk"
    /\ out = << >>
    /\ \E n \in 0..MaxFiles : PickTree(<< >>, n, MaxChunks)
    /\ test_files = << >>
    /\ idx = 0
    /\ files_needing_fix = << >>
    /\ RewriterIdle

\* lines 16-28: collect the test files, print how many were found
RECURSIVE Walk(_, _)
Walk(files, i) ==
    IF i > Len(files) THEN << >>
    ELSE (IF IsTestFile(files[i].name) THEN << i >> ELSE << >>) \o Walk(files, i + 1)

FindTestFiles ==
    /\ pc = "walk"
    /\ test_files' = Walk(tree, 1)
    /\ out' = Append(out, Line("found", Len(test_files'), "test files"))
    /\ files_needing_fix' = << >>
    /\ idx' = 1
    /\ pc' = "check"
    /\ UNCHANGED << tree, rewriterVars >>

\* The prints of lines 36-44 for text read from filepath.
Verdict(filepath, text) ==
    IF ~HasMarker(text) THEN << >>
    ELSE IF NeedsFix(text)
         THEN << Line("fail", filepath, "path"),
                 Line("reason", 0, "Found fetch mocks without headers") >>
         ELSE << Line("pass", filepath, "path"),
                 Line("reason", 0, "Already has proper fetch mocks") >>

\* lines 30-44, one iteration whose open() and read() succeed
CheckFile ==
    /\ pc = "check"
    /\ idx <= Len(test_files)
    /\ LET filepath == test_files[idx]
           file == tree[filepath]
       IN /\ file.err = "none"
          /\ tree' = [tree EXCEPT ![filepath] = OpenForReading(file)]
          /\ out' = out \o Verdict(filepath, file.text)
          /\ files_needing_fix' =
                IF HasMarker(file.text) /\ NeedsFix(file.text)
                THEN Append(files_needing_fix, filepath)
                ELSE files_needing_fix
    /\ idx' = idx + 1
    /\ UNCHANGED << pc, test_files, rewriterVars >>

CheckFileError_uncaught ==
    /\ pc = "check"
    /\ idx <= Len(test_files)
    /\ tree[test_files[idx]].err # "none"
    /\ pc' = "crashed"
    /\ UNCHANGED << out, idx, scannerVars_noIdx, rewriterVars >>

\* lines 31, 45-46, one iteration whose open() raises
CheckFileError ==
    /\ pc = "check"
    /\ idx <= Len(test_files)
    /\ LET filepath == test_files[idx]
           file == tree[filepath]
       IN /\ file.err # "none"
          /\ out' = Append(out, Line("warn", filepath, file.err))
    /\ idx' = idx + 1
    /\ UNCHANGED << pc, tree, test_files, files_needing_fix, rewriterVars >>

SummaryLines_countsAll(needing) ==
    << Line("rule", 0, "="), Line("count", Len(test_files), "Files needing fix") >>
    \o [i \in 1..Len(needing) |-> Line("item", needing[i], "path")]

\* lines 48-51
SummaryLines(needing) ==
    << Line("rule", 0, "="), Line("count", Len(needing), "Files needing fix") >>
    \o [i \in 1..Len(needing) |-> Line("item", needing[i], "path")]

Summary ==
    /\ pc = "check"
    /\ idx > Len(test_files)
    /\ out' = out \o SummaryLines(files_needing_fix)
    /\ pc' = "done"
    /\ UNCHANGED << scannerVars, rewriterVars >>

ScannerNext == FindTestFiles \/ CheckFile \/ CheckFileError \/ Summary

ScannerSpec == ScannerInit /\ [][ScannerNext]_vars

\* The script is one sequential process: a step that can be taken is taken.
ScannerFairSpec == ScannerSpec /\ WF_vars(ScannerNext)

(***************************************************************************)
(*                              REWRITER                                   *)
(***************************************************************************)

\* Lexemes shared by the patterns and the replacements of lines 17-53.
Call == "expect(apiRequest).toHaveBeenCalledWith("
Method == ", { method: 'GET' }"
SpaceStar == "\\s*"

\* A rule of lines 19-44: '<path>', \{\s*<params>\s*\}\);
ParamsRule(path, params, query) ==
    [pattern |-> << Call, path, ", {", SpaceStar, params, SpaceStar, "}", ");" >>,
     replacement |-> << Call, query, Method, ");" >>]

\* A rule of lines 47-52: '<path>'\);
PlainRule(path) ==
    [pattern |-> << Call, path, ");" >>,
     replacement |-> << Call, path, Method, ");" >>]

\* The rule for '/locations/popular' written without its closing \);
replacements_unanchored ==
    << ParamsRule("'/weather/hourly/Boston'", "params: { hours: 48 },",
                  "'/weather/hourly/Boston?hours=48'"),
       ParamsRule("'/weather/hourly/Boston'", "params: { hours: 72 },",
                  "'/weather/hourly/Boston?hours=72'"),
       ParamsRule("'/locations'", "params: { page: 1, limit: 50 },",
                  "'/locations?page=1&limit=50'"),
       ParamsRule("'/locations'", "params: { page: 2, limit: 25 },",
                  "'/locations?page=2&limit=25'"),
       ParamsRule("'/locations/geocode'", "params: { address: 'London, UK', limit: 10 },",
                  "'/locations/geocode?address=London%2C+UK&limit=10'"),
       ParamsRule("'/locations/geocode'", "params: { address: 'Paris, France', limit: 5 },",
                  "'/locations/geocode?address=Paris%2C+France&limit=5'"),
       ParamsRule("'/locations/reverse'", "params: { lat: 51.5074, lon: -0.1278 },",
                  "'/locations/reverse?lat=51.5074&lon=-0.1278'"),
       ParamsRule("'/locations/reverse'", "params: { lat: -33.8688, lon: 151.2093 },",
                  "'/locations/reverse?lat=-33.8688&lon=151.2093'"),
       [pattern |-> << Call, "'/locations/popular'" >>,
        replacement |-> << Call, "'/locations/popular'", Method >>],
       PlainRule("'/health'") >>

\* The second rule pasted from the first with only its replacement edited.
replacements_pasted ==
    << ParamsRule("'/weather/hourly/Boston'", "params: { hours: 48 },",
                  "'/weather/hourly/Boston?hours=48'"),
       ParamsRule("'/weather/hourly/Boston'", "params: { hours: 48 },",
                  "'/weather/hourly/Boston?hours=72'"),
       ParamsRule("'/locations'", "params: { page: 1, limit: 50 },",
                  "'/locations?page=1&limit=50'"),
       ParamsRule("'/locations'", "params: { page: 2, limit: 25 },",
                  "'/locations?page=2&limit=25'"),
       ParamsRule("'/locations/geocode'", "params: { address: 'London, UK', limit: 10 },",
                  "'/locations/geocode?address=London%2C+UK&limit=10'"),
       ParamsRule("'/locations/geocode'", "params: { address: 'Paris, France', limit: 5 },",
                  "'/locations/geocode?address=Paris%2C+France&limit=5'"),
       ParamsRule("'/locations/reverse'", "params: { lat: 51.5074, lon: -0.1278 },",
                  "'/locations/reverse?lat=51.5074&lon=-0.1278'"),
       ParamsRule("'/locations/reverse'", "params: { lat: -33.8688, lon: 151.2093 },",
                  "'/locations/reverse?lat=-33.8688&lon=151.2093'"),
       PlainRule("'/locations/popular'"),
       PlainRule("'/health'") >>

\* The list without its last rule.
replacements_short ==
    << ParamsRule("'/weather/hourly/Boston'", "params: { hours: 48 },",
                  "'/weather/hourly/Boston?hours=48'"),
       ParamsRule("'/weather/hourly/Boston'", "params: { hours: 72 },",
                  "'/weather/hourly/Boston?hours=72'"),
       ParamsRule("'/locations'", "params: { page: 1, limit: 50 },",
                  "'/locations?page=1&limit=50'"),
       ParamsRule("'/locations'", "params: { page: 2, limit: 25 },",
                  "'/locations?page=2&limit=25'"),
       ParamsRule("'/locations/geocode'", "params: { address: 'London, UK', limit: 10 },",
                  "'/locations/geocode?address=London%2C+UK&limit=10'"),
       ParamsRule("'/locations/geocode'", "params: { address: 'Paris, France', limit: 5 },",
                  "'/locations/geocode?address=Paris%2C+France&limit=5'"),
       ParamsRule("'/locations/reverse'", "params: { lat: 51.5074, lon: -0.1278 },",
                  "'/locations/reverse?lat=51.5074&lon=-0.1278'"),
       ParamsRule("'/locations/reverse'", "params: { lat: -33.8688, lon: 151.2093 },",
                  "'/locations/reverse?lat=-33.8688&lon=151.2093'"),
       PlainRule("'/locations/popular'") >>

\* lines 17-53
replacements ==
    << ParamsRule("'/weather/hourly/Boston'", "params: { hours: 48 },",
                  "'/weather/hourly/Boston?hours=48'"),
       ParamsRule("'/weather/hourly/Boston'", "params: { hours: 72 },",
                  "'/weather/hourly/Boston?hours=72'"),
       ParamsRule("'/locations'", "params: { page: 1, limit: 50 },",
                  "'/locations?page=1&limit=50'"),
       ParamsRule("'/locations'", "params: { page: 2, limit: 25 },",
                  "'/locations?page=2&limit=25'"),
       ParamsRule("'/locations/geocode'", "params: { address: 'London, UK', limit: 10 },",
                  "'/locations/geocode?address=London%2C+UK&limit=10'"),
       ParamsRule("'/locations/geocode'", "params: { address: 'Paris, France', limit: 5 },",
                  "'/locations/geocode?address=Paris%2C+France&limit=5'"),
       ParamsRule("'/locations/reverse'", "params: { lat: 51.5074, lon: -0.1278 },",
                  "'/locations/reverse?lat=51.5074&lon=-0.1278'"),
       ParamsRule("'/locations/reverse'", "params: { lat: -33.8688, lon: 151.2093 },",
                  "'/locations/reverse?lat=-33.8688&lon=151.2093'"),
       PlainRule("'/locations/popular'"),
       PlainRule("'/health'") >>

\* How many whitespace lexemes text holds from position t on.
RECURSIVE SpaceRun(_, _)
SpaceRun(text, t) ==
    IF t <= Len(text) /\ IsSpace(text[t]) THEN 1 + SpaceRun(text, t + 1) ELSE 0

\* The regular-expression match of pattern[p..] at text[t..]: the position
\* after the match, or 0 when there is none.  \s* is greedy and backtracks.
RECURSIVE MatchEnd(_, _, _, _)
RECURSIVE MatchStar(_, _, _, _, _)
MatchEnd(pattern, p, text, t) ==
    IF p > Len(pattern) THEN t
    ELSE IF pattern[p] = SpaceStar
         THEN MatchStar(pattern, p, text, t, SpaceRun(text, t))
         ELSE IF t <= Len(text) /\ text[t] = pattern[p]
              THEN MatchEnd(pattern, p + 1, text, t + 1)
              ELSE 0

MatchStar(pattern, p, text, t, n) ==
    IF n < 0 THEN 0
    ELSE LET e == MatchEnd(pattern, p + 1, text, t + n)
         IN IF e # 0 THEN e ELSE MatchStar(pattern, p, text, t, n - 1)

\* re.sub(pattern, replacement, content): the leftmost match from t on is
\* replaced and the scan resumes after it, so that every non-overlapping
\* match is replaced (line 57).
RECURSIVE SubFrom(_, _, _, _)
SubFrom(pattern, replacement, text, t) ==
    LET starts == { u \in t..Len(text) : MatchEnd(pattern, 1, text, u) # 0 }
    IN IF starts = { } THEN SubSeq(text, t, Len(text))
       ELSE LET u == CHOOSE v \in starts : \A w \in starts : v <= w
            IN SubSeq(text, t, u - 1) \o replacement
               \o SubFrom(pattern, replacement, text, MatchEnd(pattern, 1, text, u))

Sub(rule, text) == SubFrom(rule.pattern, rule.replacement, text, 1)

\* open(test_file, 'r').read(): text mode reads with universal newlines, so
\* every \r\n and every \r of the file arrives as \n (lines 12-13).
Decode(bytes) ==
    [i \in 1..Len(bytes) |-> IF bytes[i] \in {"\r\n", "\r"} THEN "\n" ELSE bytes[i]]

\* os.linesep of the host of line 9, a macOS path.
LineSep == "\n"

\* open(test_file, 'w').write(content): text mode writes \n as os.linesep
\* (lines 60-61).
Encode(text) ==
    [i \in 1..Len(text) |-> IF text[i] = "\n" THEN LineSep ELSE text[i]]

ScannerIdle ==
    /\ tree = << >> /\ test_files = << >> /\ idx = 0 /\ files_needing_fix = << >>

\* The expectations weatherApi.test.js is written with before the rewrite:
\* first argument, params object, and the first argument after the rewrite.
Calls ==
    << [path |-> "'/weather/hourly/Boston'", params |-> "params: { hours: 48 },",
        query |-> "'/weather/hourly/Boston?hours=48'"],
       [path |-> "'/weather/hourly/Boston'", params |-> "params: { hours: 72 },",
        query |-> "'/weather/hourly/Boston?hours=72'"],
       [path |-> "'/locations'", params |-> "params: { page: 1, limit: 50 },",
        query |-> "'/locations?page=1&limit=50'"],
       [path |-> "'/locations'", params |-> "params: { page: 2, limit: 25 },",
        query |-> "'/locations?page=2&limit=25'"],
       [path |-> "'/locations/geocode'",
        params |-> "params: { address: 'London, UK', limit: 10 },",
        query |-> "'/locations/geocode?address=London%2C+UK&limit=10'"],
       [path |-> "'/locations/geocode'",
        params |-> "params: { address: 'Paris, France', limit: 5 },",
        query |-> "'/locations/geocode?address=Paris%2C+France&limit=5'"],
       [path |-> "'/locations/reverse'",
        params |-> "params: { lat: 51.5074, lon: -0.1278 },",
        query |-> "'/locations/reverse?lat=51.5074&lon=-0.1278'"],
       [path |-> "'/locations/reverse'",
        params |-> "params: { lat: -33.8688, lon: 151.2093 },",
        query |-> "'/locations/reverse?lat=-33.8688&lon=151.2093'"],
       [path |-> "'/locations/popular'", params |-> "", query |-> "'/locations/popular'"],
       [path |-> "'/health'", params |-> "", query |-> "'/health'"] >>

\* The old expectation c as it is laid out in the file, ws being the
\* whitespace around the params object.
OldCall(c, ws) ==
    IF c.params = "" THEN << Call, c.path, ");" >>
    ELSE << Call, c.path, ", {" >> \o ws \o << c.params >> \o ws \o << "}", ");" >>

\* The expectation c after the rewrite.
NewCall(c) == << Call, c.query, Method, ");" >>

Indent == << "\r\n", " " >>

\* Text fragments the rewritten file is made of: old expectations on one
\* line or laid out over several lines, expectations already rewritten,
\* expectations no rule is written for, other text, a line break.
Segments ==
    { OldCall(Calls[i], IF i % 2 = 0 THEN Indent ELSE << >>) : i \in 1..Len(Calls) }
    \cup { OldCall(Calls[1], Indent), NewCall(Calls[1]), NewCall(Calls[9]) }
    \cup { << Call, "'/locations'", ");" >>,
           << Call, "'/weather/hourly/Boston'", ", {", "params: { page: 1, limit: 50 },",
              "}", ");" >>,
           << "describe(" >>,
           << "\r\n" >> }

\* Files that hold each old expectation exactly once: the list of Calls
\* rotated by k, every expectation followed by sep.
RECURSIVE Rotated(_, _, _, _)
Rotated(k, n, ws, sep) ==
    IF n = 0 THEN << >>
    ELSE OldCall(Calls[((k + Len(Calls) - n) % Len(Calls)) + 1], ws) \o sep
         \o Rotated(k, n - 1, ws, sep)

FullFiles ==
    { Rotated(k, Len(Calls), ws, sep) :
        k \in {0, 3, 8}, ws \in { << >>, Indent }, sep \in { << "\n" >>, << "\r\n" >> } }

RewriterInit ==
    /\ pc = "read"
    /\ out = << >>
    /\ \/ \E n \in 0..MaxSegs : \E segs \in SeqsOfLen(Segments, n) : disk = Concat(segs)
       \/ disk \in FullFiles
    /\ disk0 = disk
    /\ disk1 = disk
    /\ content = << >>
    /\ ri = 0
    /\ run = 1
    /\ trace = << >>
    /\ applied = { }
    /\ ScannerIdle

ReadFailed_swallowed ==
    /\ pc = "read"
    /\ content' = << >>
    /\ ri' = 1
    /\ trace' = Append(trace, "read failed")
    /\ pc' = "apply"
    /\ UNCHANGED << out, disk, run, disk0, disk1, applied, scannerVars >>

\* lines 12-13 when open() or read() raises: the script ends there
ReadFailed ==
    /\ pc = "read"
    /\ trace' = Append(trace, "read failed")
    /\ pc' = "crashed"
    /\ UNCHANGED << out, disk, content, ri, run, disk0, disk1, applied, scannerVars >>

\* lines 12-13
Read ==
    /\ pc = "read"
    /\ content' = Decode(disk)
    /\ ri' = 1
    /\ trace' = Append(trace, "read")
    /\ pc' = "apply"
    /\ UNCHANGED << out, disk, run, disk0, disk1, applied, scannerVars >>

\* lines 56-57, one iteration
ApplyRule ==
    /\ pc = "apply"
    /\ ri <= Len(replacements)
    /\ content' = Sub(replacements[ri], content)
    /\ ri' = ri + 1
    /\ trace' = Append(trace, "sub")
    /\ UNCHANGED << pc, out, disk, run, disk0, disk1, applied, scannerVars >>

\* lines 60-61
Write ==
    /\ pc = "apply"
    /\ ri > Len(replacements)
    /\ disk' = Encode(content)
    /\ trace' = Append(trace, "write")
    /\ pc' = "report"
    /\ UNCHANGED << out, content, ri, run, disk0, disk1, applied, scannerVars >>

\* lines 60-61 when open() raises (the file is as it was) or write() raises
\* after open(test_file, 'w') has truncated the file: the script ends there
WriteFailed ==
    /\ pc = "apply"
    /\ ri > Len(replacements)
    /\ disk' \in { disk, << >> }
    /\ trace' = Append(trace, "write failed")
    /\ pc' = "crashed"
    /\ UNCHANGED << out, content, ri, run, disk0, disk1, applied, scannerVars >>

\* lines 63-64
Report ==
    /\ pc = "report"
    /\ out' = out \o << Line("fixed", 0, "Fixed weatherApi.test.js expectations!"),
                        Line("applied", Len(replacements), "replacements") >>
    /\ trace' = Append(trace, "print")
    /\ pc' = "done"
    /\ UNCHANGED << disk, content, ri, run, disk0, disk1, applied, scannerVars >>

\* The script is started again on the file the last run left.
RunAgain ==
    /\ pc = "done"
    /\ run < MaxRuns
    /\ run' = run + 1
    /\ disk1' = disk
    /\ content' = << >>
    /\ ri' = 0
    /\ trace' = << >>
    /\ pc' = "read"
    /\ UNCHANGED << out, disk, disk0, applied, scannerVars >>

RewriterNext ==
    Read \/ ReadFailed \/ ApplyRule \/ Write \/ WriteFailed \/ Report \/ RunAgain

RewriterSpec == RewriterInit /\ [][RewriterNext]_vars

(***************************************************************************)
(* The rules of the Rewriter applied in an arbitrary order: every rule     *)
(* once, each on the text the rules before it have left.                   *)
(***************************************************************************)
AnyOrderInit ==
    /\ pc = "apply"
    /\ out = << >>
    /\ disk \in Segments \cup FullFiles
    /\ disk0 = disk
    /\ disk1 = disk
    /\ content = Decode(disk)
    /\ ri = 0
    /\ run = 1
    /\ trace = << >>
    /\ applied = { }
    /\ ScannerIdle

\* line 57 for the rule r, whichever rules ran before it
ApplyAnyRule ==
    /\ pc = "apply"
    /\ \E r \in (1..Len(replacements)) \ applied :
          /\ content' = Sub(replacements[r], content)
          /\ applied' = applied \cup {r}
    /\ UNCHANGED << pc, out, disk, ri, run, disk0, disk1, trace, scannerVars >>

AnyOrderNext == ApplyAnyRule

AnyOrderSpec == AnyOrderInit /\ [][AnyOrderNext]_vars

\* lines 56-57: the rules from the i-th on, in the listed order
RECURSIVE ApplyListed(_, _)
ApplyListed(text, i) ==
    IF i > Len(replacements) THEN text
    ELSE ApplyListed(Sub(replacements[i], text), i + 1)

(***************************************************************************)
(* Rewriter: properties.                                                   *)
(***************************************************************************)

\* The regular expression an old expectation is recognised by, whitespace
\* around its params object being free.
OldPattern(c) ==
    IF c.params = "" THEN << Call, c.path, ");" >>
    ELSE << Call, c.path, ", {", SpaceStar, c.params, SpaceStar, "}", ");" >>

Occurrences(pattern, text) ==
    { t \in 1..Len(text) : MatchEnd(pattern, 1, text, t) # 0 }

\* Positions of text at which the lexemes of piece stand.
Places(piece, text) ==
    { t \in 1..(Len(text) - Len(piece) + 1) :
        SubSeq(text, t, t + Len(piece) - 1) = piece }

\* C2: the Rewriter run again on the file a run has left changes nothing:
\* no rule matches during the later run and the file it writes equals the
\* file it read.
C2_Idempotent ==
    run >= 2 =>
        /\ pc \in {"apply", "report", "done"} => content = Decode(disk1)
        /\ pc = "done" => disk = disk1

\* The first run changed the file and the second run is over.
C2_Witness ==
    /\ run = 2
    /\ pc = "done"
    /\ disk1 # disk0

NoTargetPattern(text) ==
    \A r \in 1..Len(replacements) : Occurrences(replacements[r].pattern, text) = { }

\* C3: a run on a file that holds none of the target patterns ends without
\* error, reports the number of rules in the list, and leaves the file
\* byte-identical.
C3_ByteIdentical ==
    (run = 1 /\ pc = "done" /\ NoTargetPattern(Decode(disk0))) =>
        /\ disk = disk0
        /\ out = << Line("fixed", 0, "Fixed weatherApi.test.js expectations!"),
                    Line("applied", Len(replacements), "replacements") >>

OneOfEach(text) ==
    \A i \in 1..Len(Calls) : Cardinality(Occurrences(OldPattern(Calls[i]), text)) = 1

AllRewritten(bytes) ==
    /\ \A i \in 1..Len(Calls) :
          /\ Cardinality(Places(NewCall(Calls[i]), bytes)) = 1
          /\ Occurrences(OldPattern(Calls[i]), Decode(bytes)) = { }

\* C4 as stated: there are 9 shapes, and in a file holding each exactly
\* once every shape is replaced by a call whose first argument carries the
\* query string and whose second argument is { method: 'GET' }, no old shape
\* remaining.
C4_NineShapes ==
    (run = 1 /\ pc = "done" /\ OneOfEach(Decode(disk0))) =>
        /\ Len(replacements) = 9
        /\ \A r \in 1..Len(replacements) :
              replacements[r].replacement[2] # replacements[r].pattern[2]
        /\ AllRewritten(disk)

\* C4 amended: there are 10 shapes; in a file holding each exactly once
\* every shape is replaced by its transformed call, whose second argument is
\* { method: 'GET' } and whose first argument carries the query string for
\* the 8 shapes with a params object and is unchanged for '/locations/popular'
\* and '/health', no old shape remaining.
C4_TenShapes ==
    (run = 1 /\ pc = "done" /\ OneOfEach(Decode(disk0))) =>
        /\ Len(replacements) = 10
        /\ \A r \in 1..Len(replacements) :
              /\ replacements[r].replacement[3] = ", { method: 'GET' }"
              /\ (replacements[r].replacement[2] = replacements[r].pattern[2])
                    <=> r \in {9, 10}
        /\ AllRewritten(disk)

\* A file holding each old expectation once, laid out over several lines,
\* has been rewritten.
C4_Witness ==
    /\ run = 1
    /\ pc = "done"
    /\ OneOfEach(Decode(disk0))
    /\ Contains(disk0, "\r\n")

\* C9: whatever the order in which the rules are applied, once every rule
\* has been applied the text is the one the listed order gives.
C9_OrderIndependent ==
    applied = 1..Len(replacements) => content = ApplyListed(Decode(disk), 1)

\* Every rule has been applied to a file on which every rule matches.
C9_Witness ==
    /\ applied = 1..Len(replacements)
    /\ disk \in FullFiles
    /\ content # Decode(disk)

IsPrefix(a, b) == Len(a) <= Len(b) /\ a = SubSeq(b, 1, Len(a))

StepsInOrder ==
    << "read" >> \o [i \in 1..Len(replacements) |-> "sub"] \o << "write", "print" >>

\* C10: a run reads the file, applies all the rules, writes the file and
\* prints the report, in this order; a run whose read fails ends without
\* having written the file and without a report.
C10_StepOrder ==
    /\ \/ IsPrefix(trace, StepsInOrder)
       \/ trace = << "read failed" >>
       \/ /\ trace[Len(trace)] = "write failed"
          /\ IsPrefix(SubSeq(trace, 1, Len(trace) - 1), StepsInOrder)
          /\ Len(trace) = Len(replacements) + 2
    /\ disk # disk1 => \E i \in 1..Len(trace) : trace[i] \in {"write", "write failed"}
    /\ Len(out) = 2 * (IF Contains(trace, "print") THEN run ELSE run - 1)
    /\ trace = << "read failed" >> => pc = "crashed" /\ disk = disk1

\* A first run has rewritten the file and printed its report; the read of
\* the second run has failed.
C10_Witness ==
    /\ run = 2
    /\ pc = "crashed"
    /\ trace = << "read failed" >>
    /\ disk0 # disk
    /\ Len(out) = 2

(***************************************************************************)
(* Scanner: properties.                                                    *)
(***************************************************************************)

\* The files the loop of line 30 has finished with.
Processed == IF pc \in {"check", "done"} THEN 1..(idx - 1) ELSE { }

LinesFor(glyphs, filepath) ==
    { i \in 1..Len(out) : out[i].glyph \in glyphs /\ out[i].arg = filepath }

ReadableMarked(j) ==
    /\ tree[test_files[j]].err = "none"
    /\ Contains(tree[test_files[j]].text, "global.fetch")

\* C1: a file read successfully whose text contains 'global.fetch' is
\* classified "needs fix" exactly when the legacy regex matches and
\* 'headers:' occurs nowhere in it, "already compliant" in every other case,
\* and gets exactly one classification.
C1_Classification ==
    \A j \in Processed :
        ReadableMarked(j) =>
            LET filepath == test_files[j]
                text == tree[filepath].text
                legacy == LegacySearch(text) /\ ~Contains(text, "headers:")
            IN /\ legacy <=> LinesFor({"fail"}, filepath) # { }
               /\ legacy <=> filepath \in Range(files_needing_fix)
               /\ ~legacy <=> LinesFor({"pass"}, filepath) # { }
               /\ Cardinality(LinesFor({"fail", "pass"}, filepath)) = 1

\* A file with the marker, a legacy mock and 'headers:' was classified
\* compliant.
C1_Witness ==
    \E j \in Processed :
        /\ ReadableMarked(j)
        /\ LegacySearch(tree[test_files[j]].text)
        /\ Contains(tree[test_files[j]].text, "headers:")
        /\ LinesFor({"pass"}, test_files[j]) # { }

UnreadableHandled(j) ==
    LET filepath == test_files[j]
    IN /\ \E i \in LinesFor({"warn"}, filepath) : out[i].msg = tree[filepath].err
       /\ filepath \notin Range(files_needing_fix)
       /\ LinesFor({"fail", "pass"}, filepath) = { }

SummaryPrinted ==
    /\ pc = "done"
    /\ \E i \in 1..Len(out) : out[i].glyph = "count"

\* C5: a file whose read fails gets a warning naming its path and the error,
\* is put neither on the needs-fix list nor in the compliant output, the
\* files after it are processed all the same, and the scan always reaches
\* and prints the final summary.
C5_ReadFailureIsLocal ==
    /\ [](\A j \in Processed :
             tree[test_files[j]].err # "none" => UnreadableHandled(j))
    /\ [](pc = "done" =>
             \A j \in 1..Len(test_files) :
                 /\ j \in Processed
                 /\ ReadableMarked(j) =>
                       Cardinality(LinesFor({"fail", "pass"}, test_files[j])) = 1)
    /\ <>SummaryPrinted

\* The first file could not be read, the second one was classified, and the
\* summary is printed.
C5_Witness ==
    /\ SummaryPrinted
    /\ Len(test_files) = 2
    /\ tree[test_files[1]].err # "none"
    /\ LinesFor({"warn"}, test_files[1]) # { }
    /\ LinesFor({"fail"}, test_files[2]) # { }

\* C6: a file read successfully whose text does not contain 'global.fetch'
\* is not put on the needs-fix list and gets no failure line, whether or not
\* the legacy pattern or 'headers:' occurs in it.
C6_NoMarkerNoFailure ==
    \A j \in Processed :
        LET filepath == test_files[j]
        IN (tree[filepath].err = "none"
            /\ ~Contains(tree[filepath].text, "global.fetch"))
           => /\ filepath \notin Range(files_needing_fix)
              /\ LinesFor({"fail"}, filepath) = { }

\* A file with a legacy mock, no 'headers:' and no marker has been processed.
C6_Witness ==
    /\ pc = "done"
    /\ \E j \in Processed :
          /\ tree[test_files[j]].err = "none"
          /\ ~Contains(tree[test_files[j]].text, "global.fetch")
          /\ LegacySearch(tree[test_files[j]].text)
          /\ ~Contains(tree[test_files[j]].text, "headers:")

PositionsOf(glyph) == { i \in 1..Len(out) : out[i].glyph = glyph }

\* What the summary must hold apart from the total: the number of files
\* needing fix and the path of each, which are exactly the files printed
\* with a failure glyph.
SummaryOfNeedsFix ==
    LET n == Cardinality({ p \in Range(test_files) : LinesFor({"fail"}, p) # { } })
        last == Len(out)
    IN /\ last >= n + 2
       /\ out[last - n - 1].glyph = "rule"
       /\ out[last - n].glyph = "count" /\ out[last - n].arg = n
       /\ \A i \in (last - n + 1)..last : out[i].glyph = "item"
       /\ { out[i].arg : i \in (last - n + 1)..last }
             = { p \in Range(test_files) : LinesFor({"fail"}, p) # { } }
       /\ \A i \in PositionsOf("fail") \cup PositionsOf("pass")
                   \cup PositionsOf("warn") : i < last - n - 1
       /\ (test_files = << >> => n = 0 /\ files_needing_fix = << >>)

\* C7 as stated: the summary printed after every file has been processed
\* contains the total number of files scanned, the number of files needing
\* fix and the path of each file needing fix.
C7_TotalInSummary ==
    pc = "done" =>
        /\ SummaryOfNeedsFix
        /\ \E r \in PositionsOf("rule") : \E i \in PositionsOf("found") :
              i > r /\ out[i].arg = Len(test_files)

\* C7 amended: the number of test files found is printed once, before any
\* file is processed; after every file has been processed the summary holds
\* the number of files needing fix and the path of each, exactly the files
\* printed with a failure glyph; with no test file the count found is zero
\* and the needs-fix list is empty.
C7_SummaryAfterScan ==
    pc = "done" =>
        /\ SummaryOfNeedsFix
        /\ idx = Len(test_files) + 1
        /\ PositionsOf("found") = {1}
        /\ out[1].arg = Len(test_files)

\* Two test files were found, one of them needs fixing.
C7_Witness ==
    /\ pc = "done"
    /\ Len(test_files) = 2
    /\ Len(files_needing_fix) = 1

\* C8: no step of the Scanner changes the set of files or the content of a
\* file.
C8_ReadOnly == [][tree' = tree]_vars

\* A file with text in it has been read and the scan is over.
C8_Witness ==
    /\ pc = "done"
    /\ \E j \in Processed :
          tree[test_files[j]].err = "none" /\ tree[test_files[j]].text # << >>

====
